---- MODULE Spec2Model ----
(***************************************************************************)
(* A model of the PyTorch-to-Chakra execution trace converter              *)
(* (et_converter/pytorch2chakra_converter.py): the identity assigner, the  *)
(* overlap splitter working on a heap of PyTorchNode objects, the          *)
(* dependency converter, the graph sanitizer and the trace writer.         *)
(***************************************************************************)
EXTENDS Integers, Sequences, FiniteSets, TLC

(***************************************************************************)
(* Bounds of the model.                                                    *)
(***************************************************************************)
\* number of assign_unique_id calls explored on a lone assigner
MaxAssign == 4
\* original ids passed to a lone assigner are 0..MaxOrigId
MaxOrigId == 2
\* set_next_id arguments explored on a lone assigner are 0..MaxStartId
MaxStartId == 2
\* records of a loaded trace carry the ids 1..NumRecords
NumRecords == 3
\* timestamps of the loaded records are 0..MaxTs
MaxTs == 2
\* durations of the loaded records are 0..MaxDur
MaxDur == 2
\* record sets handed to the dependency converter carry the ids 1..NumDepNodes
NumDepNodes == 4
\* node sets handed to the sanitizer carry the ids 1..NumGraphNodes
NumGraphNodes == 3
\* and have at most MaxEdges data dependencies in all
MaxEdges == 4
\* num_dims, the dimensionality the converter is configured with
NumDims == 2
\* names of classified records have at most MaxNameLen pieces
MaxNameLen == 2

VARIABLES
    pc,                        \* position of the caller in the run
    input_file,                \* the records json.load reads from the input file
    next_id,                   \* UniqueIdAssigner.next_id
    original_to_assigned_ids,  \* UniqueIdAssigner.original_to_assigned_ids
    returned,                  \* ids returned by assign_unique_id, in call order
    requested,                 \* original ids passed to assign_unique_id, in call order
    heap,                      \* the PyTorchNode objects, by address
    pytorch_nodes,             \* self.pytorch_nodes: dict id -> address
    pytorch_root_nids,         \* self.pytorch_root_nids
    updated_pytorch_nodes,     \* local dict of split_cpu_nodes_with_gpu_child
    split_i,                   \* records of pytorch_nodes.values() already iterated
    last_split,                \* what the last _split_cpu_node call was given and returned
    chakra_nodes,              \* self.chakra_nodes: dict id -> ChakraNode
    root_nodes,                \* the list root_nodes of convert(), as ids
    root_i,                    \* root nodes whose traversal was started
    stack,                     \* convert_ctrl_dep_to_data_dep: stack, as ids
    visited,                   \* convert_ctrl_dep_to_data_dep: visited
    last_visited_non_gpu,      \* the cursor: <<>> for None, else <<id>>
    last_visited_any,          \* the cursor: <<>> for None, else <<id>>
    visit_order,               \* ids in the order the current traversal visited them
    finalized,                 \* ids in the order all traversals so far visited them
    written,                   \* the messages handed to encode_message, in order
    chakra_et,                 \* the output file: "none", "open" or "closed"
    error,                     \* the exception that ended the run, or "none"
    cycle_report               \* what cycle detection logged and what it raised

assigner_vars == <<next_id, original_to_assigned_ids, returned, requested>>
record_vars == <<input_file, heap, pytorch_nodes, pytorch_root_nids, updated_pytorch_nodes,
                 split_i, last_split>>
dep_vars == <<root_nodes, root_i, stack, visited, last_visited_non_gpu, last_visited_any,
              visit_order, finalized>>
graph_vars == <<chakra_nodes, dep_vars, written>>
vars == <<pc, assigner_vars, record_vars, graph_vars, chakra_et, error, cycle_report>>

(***************************************************************************)
(* Python containers.  A dict keeps its keys in insertion order: keys is   *)
(* that order, val the mapping.  None is modelled by the address 0.        *)
(***************************************************************************)
None == 0

EmptyDict == [keys |-> <<>>, val |-> <<>>]

DictKeys(d) == {d.keys[i] : i \in DOMAIN d.keys}

DictHas(d, k) == k \in DictKeys(d)

DictGet(d, k) == IF DictHas(d, k) THEN d.val[k] ELSE None

DictPut(d, k, v) ==
    [keys |-> IF DictHas(d, k) THEN d.keys ELSE Append(d.keys, k),
     val  |-> [x \in DictKeys(d) \cup {k} |-> IF x = k THEN v ELSE d.val[x]]]

DictDel(d, k) ==
    [keys |-> SelectSeq(d.keys, LAMBDA x : x # k),
     val  |-> [x \in DictKeys(d) \ {k} |-> d.val[x]]]

\* d.values(), in insertion order
DictValues(d) == [i \in DOMAIN d.keys |-> d.val[d.keys[i]]]

Range(s) == {s[i] : i \in DOMAIN s}

\* the element of a set of one element
Only(S) == CHOOSE x \in S : TRUE

Max(S) == CHOOSE x \in S : \A y \in S : y <= x

Min(S) == CHOOSE x \in S : \A y \in S : x <= y

RECURSIVE SortedSeq(_)
\* the elements of a set of integers, ascending
SortedSeq(S) == IF S = {} THEN <<>> ELSE <<Min(S)>> \o SortedSeq(S \ {Min(S)})

(***************************************************************************)
(* UniqueIdAssigner                                                        *)
(***************************************************************************)
\* the id a call of assign_unique_id returns
AssignedId(nid) == nid

\* next_id after a call of assign_unique_id
MutNextIdStuck(nid) == nid

NextIdAfter(nid) == nid + 1

MutRecordOverwrites(o2a, original_id, unique_id) ==
    [x \in DOMAIN o2a \cup {original_id} |->
        IF x = original_id THEN <<unique_id>> ELSE o2a[x]]

\* original_to_assigned_ids after assign_unique_id(original_id) returned unique_id
RecordAssigned(o2a, original_id, unique_id) ==
    [x \in DOMAIN o2a \cup {original_id} |->
        IF x = original_id
        THEN Append(IF original_id \in DOMAIN o2a THEN o2a[original_id] ELSE <<>>,
                    unique_id)
        ELSE o2a[x]]

RECURSIVE AssignerAfter(_, _)
\* the assigner [next_id, o2a, ret, args] after assign_unique_id was called for
\* each original id of the sequence origs, in order; ret collects the returned
\* ids and args the original ids passed
AssignerAfter(a, origs) ==
    IF origs = <<>> THEN a
    ELSE LET unique_id == AssignedId(a.next_id)
         IN  AssignerAfter([next_id |-> NextIdAfter(a.next_id),
                            o2a     |-> RecordAssigned(a.o2a, Head(origs), unique_id),
                            ret     |-> Append(a.ret, unique_id),
                            args    |-> Append(a.args, Head(origs))],
                           Tail(origs))

TheAssigner == [next_id |-> next_id, o2a |-> original_to_assigned_ids, ret |-> returned,
                args |-> requested]

SetAssigner(a) ==
    /\ next_id' = a.next_id
    /\ original_to_assigned_ids' = a.o2a
    /\ returned' = a.ret
    /\ requested' = a.args

\* UniqueIdAssigner.get_assigned_ids
get_assigned_ids(original_id) ==
    IF original_id \in DOMAIN original_to_assigned_ids
    THEN original_to_assigned_ids[original_id] ELSE <<>>

\* set_next_id: the converter calls it once, from load, before any assign
set_next_id(n) ==
    /\ pc = "assigner"
    /\ returned = <<>>
    /\ next_id' = n
    /\ UNCHANGED <<graph_vars, pc, original_to_assigned_ids, returned, requested, record_vars,
                   chakra_et, error, cycle_report>>

assign_unique_id(original_id) ==
    /\ pc = "assigner"
    /\ Len(returned) < MaxAssign
    /\ SetAssigner(AssignerAfter(TheAssigner, <<original_id>>))
    /\ UNCHANGED <<graph_vars, pc, record_vars, chakra_et, error, cycle_report>>

(***************************************************************************)
(* The heap of PyTorchNode objects.  An object is a record                 *)
(*   [id, name, parent, ts, dur, kind, op_schema, outputs, children,       *)
(*    child_gpu]                                                           *)
(* where children is a list of addresses and child_gpu an address or None. *)
(* A name is the list of the pieces it is made of: a string is in a name   *)
(* when it is one of its pieces.                                           *)
(***************************************************************************)
RootNames == {<<"[pytorch|profiler|execution_graph|thread]">>,
              <<"[pytorch|profiler|execution_trace|thread]">>}

\* marker in name
NameContains(name, marker) == \E i \in DOMAIN name : name[i] = marker

\* PyTorchNode.is_gpu_op
is_gpu_op(node) == node.kind = "GPU_OP"

\* the addresses an object refers to
Refs(h, r) == Range(h[r].children) \cup (IF h[r].child_gpu = None THEN {} ELSE {h[r].child_gpu})

RECURSIVE ReachFrom(_, _, _)
ReachFrom(h, frontier, seen) ==
    IF frontier = {} THEN seen
    ELSE LET nxt == (UNION {Refs(h, r) : r \in frontier}) \ seen
         IN  ReachFrom(h, nxt, seen \cup nxt)

\* the objects copy.deepcopy(r) copies: everything reachable from r
Reach(h, r) == ReachFrom(h, {r}, {r})

\* copy.deepcopy of the object at address r: every reachable object is copied
\* once (the memo), the copies refer to one another; the result is the grown
\* heap and the address of the copy of r
DeepCopy(h, r) ==
    LET olds == SortedSeq(Reach(h, r))
        n    == Len(h)
        new(x) == n + (CHOOSE i \in DOMAIN olds : olds[i] = x)
    IN  [heap |-> [a \in 1..(n + Len(olds)) |->
                     IF a <= n THEN h[a]
                     ELSE LET o == h[olds[a - n]]
                          IN  [o EXCEPT !.children = [i \in DOMAIN o.children |-> new(o.children[i])],
                                        !.child_gpu = IF o.child_gpu = None THEN None
                                                      ELSE new(o.child_gpu)]],
         ref  |-> new(r)]

\* PyTorchNode.add_child
add_child(h, r, child) == [h EXCEPT ![r].children = Append(@, child)]

\* PyTorchNode.set_child_gpu
set_child_gpu(h, r, child_gpu) == [h EXCEPT ![r].child_gpu = child_gpu]

(***************************************************************************)
(* load_pytorch_execution_traces                                           *)
(***************************************************************************)
RECURSIVE Ancestors(_, _, _)
Ancestors(par, i, seen) ==
    IF par[i] = 0 \/ par[i] \in seen THEN seen
    ELSE Ancestors(par, par[i], seen \cup {par[i]})

\* the parent fields of a call tree: 0 names a parent that is no record
ParentMaps(n) == {par \in [1..n -> 0..n] : \A i \in 1..n : i \notin Ancestors(par, i, {})}

\* the records of a trace: a thread root is a parentless label, every other
\* record an operator on the CPU or, below its launcher, on the GPU
KindMaps(n, par) == {kind \in [1..n -> {"CPU_OP", "GPU_OP", "LABEL"}] :
                       \A i \in 1..n : /\ kind[i] = "LABEL" => par[i] = 0
                                       /\ kind[i] = "GPU_OP" => par[i] # 0}

\* PyTorchNode(node_data) for the records of the trace, listed by ascending id
NodeObjects(n, par, kind, t, d, g) ==
    [i \in 1..n |->
        [id        |-> i,
         name      |-> IF kind[i] = "LABEL" THEN <<"[pytorch|profiler|execution_trace|thread]">>
                       ELSE <<"op">>,
         parent    |-> par[i],
         ts        |-> IF kind[i] = "GPU_OP" THEN g ELSE t,
         dur       |-> d,
         kind      |-> kind[i],
         op_schema |-> "",
         outputs   |-> <<>>,
         children  |-> <<>>,
         child_gpu |-> None]]

RECURSIVE EstablishFrom(_, _, _)
\* the loop of _establish_parent_child_relationships over the objects i..
EstablishFrom(h, objs, i) ==
    IF i > Len(objs.keys) THEN h
    ELSE LET node   == DictValues(objs)[i]
             parent == h[node].parent
             h1 == IF DictHas(objs, parent)
                   THEN LET h0 == add_child(h, DictGet(objs, parent), node)
                        IN  IF is_gpu_op(h[node])
                            THEN set_child_gpu(h0, DictGet(objs, parent), node)
                            ELSE h0
                   ELSE h
         IN  EstablishFrom(h1, objs, i + 1)

_establish_parent_child_relationships(h, objs) == EstablishFrom(h, objs, 1)

\* the ids of the root records, in the order of the loop
RootNids(h, objs) ==
    SelectSeq(objs.keys, LAMBDA k : h[objs.val[k]].name \in RootNames)

\* the dict of PyTorchNode objects built at lines 230-232
NodeDict(n) == [keys |-> [i \in 1..n |-> i], val |-> [i \in 1..n |-> i]]

RECURSIVE NodeObjectsFrom(_, _, _)
\* the dict comprehension of lines 230-232 over the records i.. of the file:
\* the object made of record i is at address i
NodeObjectsFrom(records, i, d) ==
    IF i > Len(records) THEN d
    ELSE NodeObjectsFrom(records, i + 1, DictPut(d, records[i].id, i))

pytorch_node_objects(records) == NodeObjectsFrom(records, 1, EmptyDict)

load_pytorch_execution_traces ==
    /\ pc = "load"
    /\ input_file # <<>>
    /\ heap' = _establish_parent_child_relationships(input_file,
                                                     pytorch_node_objects(input_file))
    /\ pytorch_nodes' = pytorch_node_objects(input_file)
    /\ pytorch_root_nids' = RootNids(input_file, pytorch_node_objects(input_file))
    /\ next_id' = Max(DictKeys(pytorch_node_objects(input_file))) + 1
    /\ pc' = "open"
    /\ UNCHANGED <<input_file, graph_vars, original_to_assigned_ids, returned, requested,
                   updated_pytorch_nodes, split_i,
                   last_split, chakra_et, error, cycle_report>>

\* the input file cannot be opened: IOError, re-raised as Exception
load_fails ==
    /\ pc = "load"
    /\ pc' = "failed"
    /\ error' = "Exception"
    /\ UNCHANGED cycle_report
    /\ UNCHANGED <<graph_vars, assigner_vars, record_vars, chakra_et>>

(***************************************************************************)
(* open_chakra_execution_trace                                             *)
(***************************************************************************)
open_chakra_execution_trace ==
    /\ pc = "open"
    /\ chakra_et' = "open"
    /\ pc' = "split"
    /\ UNCHANGED <<graph_vars, assigner_vars, record_vars, error, cycle_report>>

open_fails ==
    /\ pc = "open"
    /\ pc' = "failed"
    /\ error' = "Exception"
    /\ UNCHANGED cycle_report
    /\ UNCHANGED <<graph_vars, assigner_vars, record_vars, chakra_et>>

(***************************************************************************)
(* split_cpu_nodes_with_gpu_child                                          *)
(***************************************************************************)
\* _update_parent_node_children: in the dict that holds the parent, drop the
\* children carrying the id of cpu_node and append cpu_node_first
_update_parent_node_children(h, parent_node_dict, cpu_node, cpu_node_first) ==
    LET parent_node == parent_node_dict.val[h[cpu_node].parent]
    IN  [h EXCEPT ![parent_node].children =
            Append(SelectSeq(@, LAMBDA child : h[child].id # h[cpu_node].id),
                   cpu_node_first)]

\* lines 387-390: the dict searched first is self.pytorch_nodes
ParentUpdated(h, pn, upd, cpu_node, cpu_node_first) ==
    IF DictHas(pn, h[cpu_node].parent)
    THEN _update_parent_node_children(h, pn, cpu_node, cpu_node_first)
    ELSE IF DictHas(upd, h[cpu_node].parent)
    THEN _update_parent_node_children(h, upd, cpu_node, cpu_node_first)
    ELSE h

\* line 379: the first segment is rejected
FirstInvalid(first_ts, first_dur, gpu_ts) == first_ts >= gpu_ts \/ first_dur <= 0

MutSecondInvalidStartOnly(first_ts, second_ts, second_dur) == second_ts <= first_ts

\* line 408: the second segment is rejected
SecondInvalid(first_ts, second_ts, second_dur) == second_ts <= first_ts \/ second_dur <= 0

\* line 377
FirstDur(cpu_ts, gpu_ts) == gpu_ts - cpu_ts

MutSecondDurFromZero(cpu_ts, cpu_dur, gpu_ts) == cpu_dur - gpu_ts

\* line 402
SecondDur(cpu_ts, cpu_dur, gpu_ts) == cpu_dur - (gpu_ts - cpu_ts)

\* lines 405-407: every child of cpu_node is reparented under the second
\* segment and appended to its children
AdoptChildren(h, cpu_node, cpu_node_second) ==
    LET kids == h[cpu_node].children
    IN  [x \in DOMAIN h |->
            LET o == IF x \in Range(kids)
                     THEN [h[x] EXCEPT !.parent = h[cpu_node_second].id] ELSE h[x]
            IN  IF x = cpu_node_second THEN [o EXCEPT !.children = @ \o kids] ELSE o]

Last(s) == s[Len(s)]

(***************************************************************************)
(* _split_cpu_node works on a frame: the heap and the assigner, the        *)
(* addresses of cpu_node and gpu_node, the addresses of the two segments   *)
(* once they exist, and whether ValueError was raised.                     *)
(***************************************************************************)
FirstSegmentMade(h, a, cpu_node, gpu_node, c1, a1) ==
    [heap   |-> set_child_gpu(
                  [c1.heap EXCEPT ![c1.ref].id  = Last(a1.ret),
                                  ![c1.ref].ts  = h[cpu_node].ts,
                                  ![c1.ref].dur = FirstDur(h[cpu_node].ts, h[gpu_node].ts)],
                  c1.ref, gpu_node),
     asg    |-> a1,
     cpu    |-> cpu_node,
     gpu    |-> gpu_node,
     first  |-> c1.ref,
     second |-> None,
     raised |-> FALSE]

\* lines 374-378
FirstSegment(h, a, cpu_node, gpu_node) ==
    FirstSegmentMade(h, a, cpu_node, gpu_node,
                     DeepCopy(h, cpu_node), AssignerAfter(a, <<h[cpu_node].id>>))

\* lines 379-385
FirstChecked(f) ==
    [f EXCEPT !.raised = FirstInvalid(f.heap[f.first].ts, f.heap[f.first].dur,
                                      f.heap[f.gpu].ts)]

\* lines 387-390
ParentLinked(f, pn, upd) ==
    [f EXCEPT !.heap = ParentUpdated(f.heap, pn, upd, f.cpu, f.first)]

GpuRenumberedTo(f, a2) ==
    [f EXCEPT !.asg  = a2,
              !.heap = [f.heap EXCEPT ![f.gpu].id     = Last(a2.ret),
                                      ![f.gpu].parent = f.heap[f.first].id]]

\* lines 395-397
GpuRenumbered(f) == GpuRenumberedTo(f, AssignerAfter(f.asg, <<f.heap[f.gpu].id>>))

SecondSegmentMade(f, c2, a3) ==
    [f EXCEPT !.asg    = a3,
              !.second = c2.ref,
              !.heap   = set_child_gpu(
                           [c2.heap EXCEPT ![c2.ref].id     = Last(a3.ret),
                                           ![c2.ref].ts     = f.heap[f.gpu].ts,
                                           ![c2.ref].dur    =
                                               SecondDur(f.heap[f.cpu].ts, f.heap[f.cpu].dur,
                                                         f.heap[f.gpu].ts),
                                           ![c2.ref].parent = f.heap[f.first].id],
                           c2.ref, None)]

\* lines 399-404
SecondSegment(f) ==
    SecondSegmentMade(f, DeepCopy(f.heap, f.cpu), AssignerAfter(f.asg, <<f.heap[f.cpu].id>>))

\* lines 405-407
ChildrenAdopted(f) == [f EXCEPT !.heap = AdoptChildren(f.heap, f.cpu, f.second)]

\* lines 408-414
SecondChecked(f) ==
    [f EXCEPT !.raised = SecondInvalid(f.heap[f.first].ts, f.heap[f.second].ts,
                                       f.heap[f.second].dur)]

\* lines 419-420
SegmentsLinked(f) ==
    [f EXCEPT !.heap = add_child(add_child(f.heap, f.first, f.second), f.first, f.gpu)]

SplitTail(f) == IF f.raised THEN f ELSE SegmentsLinked(f)

SplitBody(f, pn, upd) ==
    IF f.raised THEN f
    ELSE SplitTail(SecondChecked(ChildrenAdopted(SecondSegment(
             GpuRenumbered(ParentLinked(f, pn, upd))))))

\* _split_cpu_node on the heap h with the assigner a: the frame it leaves when
\* it returns or raises
_split_cpu_node(h, a, pn, upd, cpu_node, gpu_node) ==
    SplitBody(FirstChecked(FirstSegment(h, a, cpu_node, gpu_node)), pn, upd)

StoredAs(st, r, d) ==
    [heap |-> d.heap, upd |-> DictPut(st.upd, st.heap[r].id, d.ref)]

\* updated_pytorch_nodes[node.id] = copy.deepcopy(node)
StoreCopy(st, r) == StoredAs(st, r, DeepCopy(st.heap, r))

\* lines 343-345
StoreCopies(f, upd) ==
    StoreCopy(StoreCopy(StoreCopy([heap |-> f.heap, upd |-> upd], f.first), f.second), f.gpu)

\* the record the loop of split_cpu_nodes_with_gpu_child looks at next
CpuNode == DictValues(pytorch_nodes)[split_i + 1]

\* lines 334-338: a record without GPU child gets a new id, its children the
\* new parent id
Renumbered(h, cpu_node, new_cpu_node_id) ==
    LET kids == Range(h[cpu_node].children)
    IN  [x \in DOMAIN h |->
            LET o == IF x = cpu_node THEN [h[x] EXCEPT !.id = new_cpu_node_id] ELSE h[x]
            IN  IF x \in kids THEN [o EXCEPT !.parent = new_cpu_node_id] ELSE o]

\* one iteration of the loop, lines 333-338
split_keep ==
    /\ pc = "split"
    /\ split_i < Len(pytorch_nodes.keys)
    /\ heap[CpuNode].child_gpu = None
    /\ \E a1 \in {AssignerAfter(TheAssigner, <<heap[CpuNode].id>>)} :
          /\ SetAssigner(a1)
          /\ heap' = Renumbered(heap, CpuNode, Last(a1.ret))
          /\ updated_pytorch_nodes' = DictPut(updated_pytorch_nodes, Last(a1.ret), CpuNode)
    /\ split_i' = split_i + 1
    /\ UNCHANGED <<input_file, graph_vars, pc, pytorch_nodes, pytorch_root_nids, last_split, chakra_et, error, cycle_report>>

\* what a call of _split_cpu_node was given and what came of it
SplitCall(h, f) ==
    [called |-> TRUE, raised |-> f.raised, at |-> split_i + 1,
     cpu |-> f.cpu, cpu_ts |-> h[f.cpu].ts, cpu_dur |-> h[f.cpu].dur,
     gpu_ts |-> h[f.gpu].ts,
     first |-> f.first, second |-> f.second, gpu |-> f.gpu]

\* one iteration of the loop, lines 340-345: the split returns and the three
\* records are stored as deep copies
split_gpu ==
    /\ pc = "split"
    /\ split_i < Len(pytorch_nodes.keys)
    /\ heap[CpuNode].child_gpu # None
    /\ \E f \in {_split_cpu_node(heap, TheAssigner, pytorch_nodes, updated_pytorch_nodes,
                                 CpuNode, heap[CpuNode].child_gpu)} :
          /\ ~f.raised
          /\ \E st \in {StoreCopies(f, updated_pytorch_nodes)} :
                /\ heap' = st.heap
                /\ updated_pytorch_nodes' = st.upd
          /\ SetAssigner(f.asg)
          /\ last_split' = SplitCall(heap, f)
    /\ split_i' = split_i + 1
    /\ UNCHANGED <<input_file, graph_vars, pc, pytorch_nodes, pytorch_root_nids, chakra_et, error, cycle_report>>

\* one iteration of the loop, lines 340-342: _split_cpu_node raises ValueError,
\* which nothing catches
split_raises ==
    /\ pc = "split"
    /\ split_i < Len(pytorch_nodes.keys)
    /\ heap[CpuNode].child_gpu # None
    /\ \E f \in {_split_cpu_node(heap, TheAssigner, pytorch_nodes, updated_pytorch_nodes,
                                 CpuNode, heap[CpuNode].child_gpu)} :
          /\ f.raised
          /\ SetAssigner(f.asg)
          /\ heap' = f.heap
          /\ last_split' = SplitCall(heap, f)
    /\ pc' = "failed"
    /\ error' = "ValueError"
    /\ UNCHANGED cycle_report
    /\ UNCHANGED <<input_file, graph_vars, pytorch_nodes, pytorch_root_nids, updated_pytorch_nodes, split_i, chakra_et>>

\* line 347: the loop is over
split_done ==
    /\ pc = "split"
    /\ split_i = Len(pytorch_nodes.keys)
    /\ pytorch_nodes' = updated_pytorch_nodes
    /\ pc' = "translate"
    /\ UNCHANGED <<input_file, graph_vars, assigner_vars, heap, pytorch_root_nids, updated_pytorch_nodes, split_i,
                   last_split, chakra_et, error, cycle_report>>

(***************************************************************************)
(* convert(), lines 158-182: the output nodes and the root nodes           *)
(***************************************************************************)
MutTypeLibraryFirst(node) ==
    IF NameContains(node.name, "c10d::") \/ NameContains(node.name, "nccl:")
    THEN "COMM_COLL_NODE"
    ELSE IF is_gpu_op(node) /\ (\/ NameContains(node.name, "ncclKernel")
                                \/ NameContains(node.name, "ncclDevKernel"))
    THEN "COMM_COLL_NODE"
    ELSE IF is_gpu_op(node)
    THEN "COMP_NODE"
    ELSE IF node.op_schema # "" \/ node.outputs # <<>>
    THEN "COMP_NODE"
    ELSE "INVALID_NODE"

get_chakra_node_type_from_pytorch_node(node) ==
    IF is_gpu_op(node) /\ (\/ NameContains(node.name, "ncclKernel")
                           \/ NameContains(node.name, "ncclDevKernel"))
    THEN "COMM_COLL_NODE"
    ELSE IF is_gpu_op(node)
    THEN "COMP_NODE"
    ELSE IF NameContains(node.name, "c10d::") \/ NameContains(node.name, "nccl:")
    THEN "COMM_COLL_NODE"
    ELSE IF node.op_schema # "" \/ node.outputs # <<>>
    THEN "COMP_NODE"
    ELSE "INVALID_NODE"

MutCtrlDepUnchecked(h, cn, pytorch_node) ==
    [id        |-> h[pytorch_node].id,
     name      |-> h[pytorch_node].name,
     type      |-> get_chakra_node_type_from_pytorch_node(h[pytorch_node]),
     ctrl_deps |-> <<h[pytorch_node].parent>>,
     data_deps |-> <<>>,
     attr      |-> <<[name |-> "is_cpu_op", val |-> ~is_gpu_op(h[pytorch_node])],
                     [name |-> "ts", val |-> h[pytorch_node].ts]>>]

\* convert_to_chakra_node: of the attributes, the two the model has values for
convert_to_chakra_node(h, cn, pytorch_node) ==
    [id        |-> h[pytorch_node].id,
     name      |-> h[pytorch_node].name,
     type      |-> get_chakra_node_type_from_pytorch_node(h[pytorch_node]),
     ctrl_deps |-> IF DictHas(cn, h[pytorch_node].parent) THEN <<h[pytorch_node].parent>>
                   ELSE <<>>,
     data_deps |-> <<>>,
     attr      |-> <<[name |-> "is_cpu_op", val |-> ~is_gpu_op(h[pytorch_node])],
                     [name |-> "ts", val |-> h[pytorch_node].ts]>>]

\* lines 169-176: the attributes of a collective; the values of comm_type and
\* comm_size are properties of the GPU record
CollectiveAttrs(num_dims) ==
    <<[name |-> "comm_type", val |-> "collective_comm_type"],
      [name |-> "comm_size", val |-> "comm_size"],
      [name |-> "involved_dim", val |-> [i \in 1..num_dims |-> TRUE]]>>

\* line 168: the test that guards the extension of the GPU node's attributes
ExtendsAttrs(chakra_node, chakra_gpu_node) == chakra_node.type = "COMM_COLL_NODE"

\* lines 167-177
GpuChakraNode(chakra_node, chakra_gpu_node) ==
    IF ExtendsAttrs(chakra_node, chakra_gpu_node)
    THEN [chakra_gpu_node EXCEPT !.attr = @ \o CollectiveAttrs(NumDims)]
    ELSE chakra_gpu_node

\* self.chakra_nodes[chakra_node.id] = chakra_node
ChakraPut(cn, chakra_node) == DictPut(cn, chakra_node.id, chakra_node)

\* lines 164-178: the GPU child of a converted record is converted with it
WithGpuChild(h, cn, pytorch_node) ==
    IF h[pytorch_node].child_gpu # None
    THEN ChakraPut(cn, GpuChakraNode(cn.val[h[pytorch_node].id],
                                     convert_to_chakra_node(h, cn, h[pytorch_node].child_gpu)))
    ELSE cn

RECURSIVE ChakraNodesFrom(_, _, _, _)
\* the loop of lines 158-178 over the items i.. of self.pytorch_nodes
ChakraNodesFrom(h, pn, cn, i) ==
    IF i > Len(pn.keys) THEN cn
    ELSE IF ~is_gpu_op(h[DictValues(pn)[i]])
    THEN ChakraNodesFrom(h, pn,
             WithGpuChild(h, ChakraPut(cn, convert_to_chakra_node(h, cn, DictValues(pn)[i])),
                          DictValues(pn)[i]),
             i + 1)
    ELSE ChakraNodesFrom(h, pn, cn, i + 1)

MutRootIsGraphThreadOnly(node) ==
    node.name = <<"[pytorch|profiler|execution_graph|thread]">>

\* is_root_node
is_root_node(node) == node.name \in RootNames

\* line 180
RootNodes(cn) == SelectSeq(cn.keys, LAMBDA k : is_root_node(cn.val[k]))

\* lines 158-180: the loop over self.pytorch_nodes and the list of root nodes
translate ==
    /\ pc = "translate"
    /\ \E cn \in {ChakraNodesFrom(heap, pytorch_nodes, chakra_nodes, 1)} :
          /\ chakra_nodes' = cn
          /\ root_nodes' = RootNodes(cn)
    /\ pc' = "roots"
    /\ UNCHANGED <<assigner_vars, record_vars, root_i, stack, visited, last_visited_non_gpu,
                   last_visited_any, visit_order, finalized, written, chakra_et, error, cycle_report>>

(***************************************************************************)
(* convert_ctrl_dep_to_data_dep                                            *)
(***************************************************************************)
RECURSIVE SortedAscending(_)
\* sorted(ids): the list in ascending order, repeats kept
SortedAscending(ids) ==
    IF ids = <<>> THEN <<>>
    ELSE SelectSeq(ids, LAMBDA x : x = Min(Range(ids)))
         \o SortedAscending(SelectSeq(ids, LAMBDA x : x # Min(Range(ids))))

RECURSIVE SortedReverse(_)
\* sorted(ids, reverse=True): the list in descending order, repeats kept
SortedReverse(ids) ==
    IF ids = <<>> THEN <<>>
    ELSE SelectSeq(ids, LAMBDA x : x = Max(Range(ids)))
         \o SortedReverse(SelectSeq(ids, LAMBDA x : x # Max(Range(ids))))

\* line 603
ChildrenChakraIds(h, pytorch_node) ==
    [i \in DOMAIN h[pytorch_node].children |-> h[h[pytorch_node].children[i]].id]

\* lines 604-607: the children pushed, in the order they are pushed
Pushed(h, cn, seen, pytorch_node) ==
    SelectSeq(SortedReverse(ChildrenChakraIds(h, pytorch_node)),
              LAMBDA child_chakra_id : /\ DictHas(cn, child_chakra_id)
                                       /\ cn.val[child_chakra_id].id \notin seen)

\* lines 581 and 591: the cursor a node of this kind depends on
MutDependsOnAny(gpu, non_gpu, any) == any

DependsOn(gpu, non_gpu, any) == IF gpu THEN any ELSE non_gpu

\* lines 582-583 and 592-593: the id of the cursor is appended unless present
WithDep(data_deps, cursor) ==
    IF cursor # <<>> /\ cursor[1] \notin Range(data_deps)
    THEN Append(data_deps, cursor[1]) ELSE data_deps

\* lines 588 and 599: the CPU-only cursor after the visit of current
MutNonGpuCursorAlways(gpu, non_gpu, current) == <<current>>

NonGpuCursorAfter(gpu, non_gpu, current) == IF gpu THEN non_gpu ELSE <<current>>

\* lines 588 and 600: the last-any cursor after the visit of current
AnyCursorAfter(current) == <<current>>

\* the traversal state after the visit of current, whose record is pytorch_node
Visit(t, h, current, pytorch_node) ==
    [t EXCEPT
       !.cn.val[current].data_deps =
           WithDep(@, DependsOn(is_gpu_op(h[pytorch_node]), t.non_gpu, t.any)),
       !.non_gpu = NonGpuCursorAfter(is_gpu_op(h[pytorch_node]), t.non_gpu, current),
       !.any     = AnyCursorAfter(current),
       !.stack   = @ \o Pushed(h, t.cn, t.seen, pytorch_node)]

MutPeeked(st) == st

\* line 568: stack.pop() takes the last node off the stack
Popped(st) == SubSeq(st, 1, Len(st) - 1)

\* one iteration of the loop at line 567 on the traversal state
\* t = [cn, stack, seen, non_gpu, any, order, fin]; fin lists the nodes a
\* cursor rule was applied to
Iteration(t, h, pn, current) ==
    IF current \in t.seen
    THEN [t EXCEPT !.stack = Popped(@)]
    ELSE IF DictGet(pn, current) # None
    THEN Visit([t EXCEPT !.stack = Popped(@),
                         !.seen  = @ \cup {current},
                         !.order = Append(@, current),
                         !.fin   = Append(@, current)],
               h, current, DictGet(pn, current))
    ELSE [t EXCEPT !.stack = Popped(@),
                   !.seen  = @ \cup {current},
                   !.order = Append(@, current)]

Traversal == [cn |-> chakra_nodes, stack |-> stack, seen |-> visited,
              non_gpu |-> last_visited_non_gpu, any |-> last_visited_any,
              order |-> visit_order, fin |-> finalized]

\* lines 181-182 and 562-565: the traversal of the next root node begins
dep_begin ==
    /\ pc = "roots"
    /\ root_i < Len(root_nodes)
    /\ root_i' = root_i + 1
    /\ stack' = <<root_nodes[root_i + 1]>>
    /\ visited' = {}
    /\ last_visited_non_gpu' = <<>>
    /\ last_visited_any' = <<>>
    /\ visit_order' = <<>>
    /\ pc' = "dep"
    /\ UNCHANGED <<assigner_vars, record_vars, chakra_nodes, root_nodes, finalized, written,
                   chakra_et, error, cycle_report>>

\* lines 567-607: one iteration of the while loop
dep_step ==
    /\ pc = "dep"
    /\ stack # <<>>
    /\ \E t \in {Iteration(Traversal, heap, pytorch_nodes, Last(stack))} :
          /\ chakra_nodes' = t.cn
          /\ stack' = t.stack
          /\ visited' = t.seen
          /\ last_visited_non_gpu' = t.non_gpu
          /\ last_visited_any' = t.any
          /\ visit_order' = t.order
          /\ finalized' = t.fin
    /\ UNCHANGED <<pc, assigner_vars, record_vars, root_nodes, root_i, written, chakra_et,
                   error, cycle_report>>

\* line 567: the stack is empty, the traversal returns
dep_end ==
    /\ pc = "dep"
    /\ stack = <<>>
    /\ pc' = "roots"
    /\ UNCHANGED <<assigner_vars, record_vars, graph_vars, chakra_et, error, cycle_report>>

\* line 181: every root node was traversed
dep_done ==
    /\ pc = "roots"
    /\ root_i = Len(root_nodes)
    /\ pc' = "remove"
    /\ UNCHANGED <<assigner_vars, record_vars, graph_vars, chakra_et, error, cycle_report>>

(***************************************************************************)
(* remove_dangling_nodes                                                   *)
(***************************************************************************)
MutParentIdsFirstDepOnly(cn) ==
    {cn.val[k].data_deps[1] : k \in {j \in DictKeys(cn) : cn.val[j].data_deps # <<>>}}

\* lines 614-616
ParentIds(cn) == UNION {Range(cn.val[k].data_deps) : k \in DictKeys(cn)}

MutDanglingIfUnnamed(node, node_id, parent_ids) == node_id \notin parent_ids

\* line 620
IsDangling(node, node_id, parent_ids) ==
    node_id \notin parent_ids /\ node.data_deps = <<>>

RECURSIVE RemoveFrom(_, _, _, _)
\* the loop of lines 619-623 over the items i.. of the list made at line 619;
\* g = [cn, pn, raised]: del self.pytorch_nodes[node_id] raises KeyError for a
\* missing key
RemoveFrom(g, items, parent_ids, i) ==
    IF i > Len(items) \/ g.raised THEN g
    ELSE IF IsDangling(g.cn.val[items[i]], items[i], parent_ids)
    THEN RemoveFrom([cn     |-> DictDel(g.cn, items[i]),
                     pn     |-> DictDel(g.pn, items[i]),
                     raised |-> ~DictHas(g.pn, items[i])],
                    items, parent_ids, i + 1)
    ELSE RemoveFrom(g, items, parent_ids, i + 1)

MutPrunedNoParentIds(cn, pn) ==
    RemoveFrom([cn |-> cn, pn |-> pn, raised |-> FALSE], cn.keys, {}, 1)

\* the two dicts after remove_dangling_nodes
Pruned(cn, pn) == RemoveFrom([cn |-> cn, pn |-> pn, raised |-> FALSE], cn.keys, ParentIds(cn), 1)

remove_dangling_nodes ==
    /\ pc = "remove"
    /\ \E g \in {Pruned(chakra_nodes, pytorch_nodes)} :
          /\ chakra_nodes' = g.cn
          /\ pytorch_nodes' = g.pn
          /\ pc' = IF g.raised THEN "failed" ELSE "identify"
          /\ error' = IF g.raised THEN "KeyError" ELSE error
    /\ UNCHANGED <<input_file, assigner_vars, heap, pytorch_root_nids, updated_pytorch_nodes, split_i,
                   last_split, dep_vars, written, chakra_et, cycle_report>>

(***************************************************************************)
(* identify_cyclic_dependencies                                            *)
(***************************************************************************)
MutEnterSeenFirst(node_id, dfs_visited, dfs_stack) ==
    IF node_id \in dfs_visited THEN "seen"
    ELSE IF node_id \in dfs_stack THEN "cycle" ELSE "new"

\* lines 656-663: what dfs finds when it enters a node
Enter(node_id, dfs_visited, dfs_stack) ==
    IF node_id \in dfs_stack THEN "cycle"
    ELSE IF node_id \in dfs_visited THEN "seen" ELSE "new"

RECURSIVE Dfs(_, _, _, _)
RECURSIVE DfsChildren(_, _, _, _, _)
\* dfs(node_id, path) on the search state s = [visited, stack, found, path,
\* keyerror]: found is its return value, path the cycle it logged
Dfs(cn, node_id, path, s) ==
    IF Enter(node_id, s.visited, s.stack) = "cycle"
    THEN [s EXCEPT !.found = TRUE, !.path = Append(path, node_id)]
    ELSE IF Enter(node_id, s.visited, s.stack) = "seen"
    THEN s
    ELSE IF ~DictHas(cn, node_id)
    THEN [s EXCEPT !.visited = @ \cup {node_id}, !.stack = @ \cup {node_id},
                   !.keyerror = TRUE]
    ELSE DfsChildren(cn, node_id, Append(path, node_id),
                     [s EXCEPT !.visited = @ \cup {node_id}, !.stack = @ \cup {node_id}],
                     1)

\* the loop of lines 668-670 over the dependencies i.. of node_id, then
\* lines 671-673
DfsChildren(cn, node_id, path, s, i) ==
    IF s.found \/ s.keyerror THEN s
    ELSE IF i > Len(cn.val[node_id].data_deps)
    THEN [s EXCEPT !.stack = @ \ {node_id}]
    ELSE Only({DfsChildren(cn, node_id, path, r, i + 1) :
                  r \in {Dfs(cn, cn.val[node_id].data_deps[i], path, s)}})

RECURSIVE SearchFrom(_, _, _)
\* the loop of lines 675-680 over the keys i.. of self.chakra_nodes
SearchFrom(cn, s, i) ==
    IF i > Len(cn.keys) \/ s.found \/ s.keyerror THEN s
    ELSE Only({SearchFrom(cn, r, i + 1) : r \in {Dfs(cn, cn.keys[i], <<>>, s)}})

\* the search state identify_cyclic_dependencies ends with
CycleSearch(cn) ==
    SearchFrom(cn, [visited |-> {}, stack |-> {}, found |-> FALSE, path |-> <<>>,
                    keyerror |-> FALSE], 1)

\* nothing was logged and nothing raised
NoReport == [logged |-> <<>>, raised |-> <<>>]

\* lines 657-660: the names joined into the logged message, path + [node_id]
LoggedNames(cn, path) == [i \in DOMAIN path |-> cn.val[path[i]].name]

\* lines 677-680: the names in the message of the exception, the name of the
\* node the search was started from
RaisedNames(cn, path) == <<cn.val[path[1]].name>>

\* the log and the exception of a search that found a cycle
CycleReport(cn, s) ==
    [logged |-> LoggedNames(cn, s.path), raised |-> RaisedNames(cn, s.path)]

identify_cyclic_dependencies ==
    /\ pc = "identify"
    /\ \E s \in {CycleSearch(chakra_nodes)} :
          /\ pc' = IF s.found \/ s.keyerror THEN "failed" ELSE "write"
          /\ error' = IF s.keyerror THEN "KeyError"
                      ELSE IF s.found THEN "Exception" ELSE error
          /\ cycle_report' = IF s.found /\ ~s.keyerror
                             THEN CycleReport(chakra_nodes, s) ELSE cycle_report
    /\ UNCHANGED <<assigner_vars, record_vars, graph_vars, chakra_et>>

(***************************************************************************)
(* write_chakra_et and close_chakra_execution_trace                        *)
(***************************************************************************)
\* the global metadata message of lines 702-710
GlobalMetadata == [metadata |-> TRUE]

MutNidsAsInserted(cn) == cn.keys

\* line 723: sorted(self.chakra_nodes.keys())
SortedNids(cn) == SortedSeq(DictKeys(cn))

RECURSIVE EncodeFrom(_, _, _, _)
\* the loop of lines 723-730 over the keys i.. of the sorted list;
\* e = [written, seen_nids, raised]: written are the messages handed to
\* encode_message so far, raised the ValueError of line 727
EncodeFrom(cn, nids, i, e) ==
    IF i > Len(nids) \/ e.raised THEN e
    ELSE IF nids[i] \in e.seen_nids THEN [e EXCEPT !.raised = TRUE]
    ELSE EncodeFrom(cn, nids, i + 1,
                    [written   |-> Append(e.written, cn.val[nids[i]]),
                     seen_nids |-> e.seen_nids \cup {nids[i]},
                     raised    |-> FALSE])

\* _write_global_metadata, then _encode_and_write_nodes
Encoded(cn) ==
    EncodeFrom(cn, SortedNids(cn), 1,
               [written |-> <<GlobalMetadata>>, seen_nids |-> {}, raised |-> FALSE])

write_chakra_et ==
    /\ pc = "write"
    /\ \E e \in {Encoded(chakra_nodes)} :
          /\ written' = e.written
          /\ pc' = IF e.raised THEN "failed" ELSE "close"
          /\ error' = IF e.raised THEN "ValueError" ELSE error
    /\ UNCHANGED <<assigner_vars, record_vars, chakra_nodes, dep_vars, chakra_et, cycle_report>>

\* encode_message raises on the message after the first n: the file keeps
\* what was written before, nothing catches the error
write_fails(n) ==
    /\ pc = "write"
    /\ \E e \in {Encoded(chakra_nodes)} :
          /\ n < Len(e.written)
          /\ written' = SubSeq(e.written, 1, n)
    /\ pc' = "failed"
    /\ error' = "IOError"
    /\ UNCHANGED cycle_report
    /\ UNCHANGED <<assigner_vars, record_vars, chakra_nodes, dep_vars, chakra_et>>

close_chakra_execution_trace ==
    /\ pc = "close"
    /\ chakra_et' = IF chakra_et = "open" THEN "closed" ELSE chakra_et
    /\ pc' = "done"
    /\ UNCHANGED <<assigner_vars, record_vars, graph_vars, error, cycle_report>>

(***************************************************************************)
(* State after construction: UniqueIdAssigner.__init__ and                 *)
(* PyTorch2ChakraConverter.initialize_attributes.                          *)
(***************************************************************************)
Constructed ==
    /\ next_id = 0
    /\ original_to_assigned_ids = <<>>
    /\ returned = <<>>
    /\ requested = <<>>
    /\ heap = <<>>
    /\ pytorch_nodes = EmptyDict
    /\ pytorch_root_nids = <<>>
    /\ updated_pytorch_nodes = EmptyDict
    /\ split_i = 0
    /\ last_split = [called |-> FALSE]
    /\ chakra_nodes = EmptyDict
    /\ root_nodes = <<>>
    /\ root_i = 0
    /\ stack = <<>>
    /\ visited = {}
    /\ last_visited_non_gpu = <<>>
    /\ last_visited_any = <<>>
    /\ visit_order = <<>>
    /\ finalized = <<>>
    /\ written = <<>>
    /\ chakra_et = "none"
    /\ error = "none"
    /\ cycle_report = NoReport

InitAssigner == pc = "assigner" /\ input_file = <<>> /\ Constructed

NextAssigner ==
    \/ \E n \in 0..MaxStartId : set_next_id(n)
    \/ \E original_id \in 0..MaxOrigId : assign_unique_id(original_id)

\* a lone UniqueIdAssigner under any sequence of calls
SpecAssigner == InitAssigner /\ [][NextAssigner]_vars

\* the converter with the records of a trace in self.pytorch_nodes and the
\* output nodes made from them, before the first traversal
TranslatedOn(h, records, n) ==
    /\ heap = h
    /\ input_file = records
    /\ pytorch_nodes = NodeDict(n)
    /\ pytorch_root_nids = RootNids(heap, pytorch_nodes)
    /\ chakra_nodes = ChakraNodesFrom(heap, pytorch_nodes, EmptyDict, 1)
    /\ root_nodes = RootNodes(chakra_nodes)
    /\ next_id = n + 1
    /\ original_to_assigned_ids = <<>>
    /\ returned = <<>>
    /\ requested = <<>>
    /\ updated_pytorch_nodes = EmptyDict
    /\ split_i = 0
    /\ last_split = [called |-> FALSE]
    /\ root_i = 0
    /\ stack = <<>>
    /\ visited = {}
    /\ last_visited_non_gpu = <<>>
    /\ last_visited_any = <<>>
    /\ visit_order = <<>>
    /\ finalized = <<>>
    /\ written = <<>>
    /\ chakra_et = "open"
    /\ error = "none"
    /\ cycle_report = NoReport

\* the same for the records of a call tree
Translated(n, par, kind) ==
    TranslatedOn(_establish_parent_child_relationships(NodeObjects(n, par, kind, 0, 0, 0),
                                                       NodeDict(n)),
                 NodeObjects(n, par, kind, 0, 0, 0), n)

\* a thread root 1 calls 2; 2 calls an operator c and launches a kernel d; c
\* calls e
ChainParents(c, d, e) ==
    [i \in 1..5 |-> IF i = 1 THEN 0 ELSE IF i = 2 THEN 1 ELSE IF i = e THEN c ELSE 2]

ChainKinds(c, d, e) ==
    [i \in 1..5 |-> IF i = 1 THEN "LABEL" ELSE IF i = d THEN "GPU_OP" ELSE "CPU_OP"]

\* the dependency converter is about to run on the records of any call tree
\* of NumDepNodes records, or on the chain above under any numbering of c, d, e
InitDep ==
    /\ pc = "roots"
    /\ \/ \E par \in ParentMaps(NumDepNodes) : \E kind \in KindMaps(NumDepNodes, par) :
             Translated(NumDepNodes, par, kind)
       \/ \E c, d, e \in 3..5 :
             /\ c # d /\ c # e /\ d # e
             /\ Translated(5, ChainParents(c, d, e), ChainKinds(c, d, e))

NextDep == dep_begin \/ dep_step \/ dep_end \/ dep_done

\* the dependency converter run from every root node
SpecDep == InitDep /\ [][NextDep]_vars

RECURSIVE Orders(_)
\* the orders in which the keys of a set can have been inserted in a dict
Orders(S) ==
    IF S = {} THEN {<<>>}
    ELSE UNION {{<<x>> \o o : o \in Orders(S \ {x})} : x \in S}

\* the output nodes with the ids 1..n, each under a name of its own, inserted
\* in the given order, whose data_deps are the edges, by ascending id
GraphNodes(n, order, edges) ==
    [keys |-> order,
     val  |-> [k \in 1..n |->
                 [id        |-> k,
                  name      |-> <<"op", ToString(k)>>,
                  type      |-> "COMP_NODE",
                  ctrl_deps |-> <<>>,
                  attr      |-> <<>>,
                  data_deps |-> SortedSeq({j \in 1..n : <<k, j>> \in edges})]]]

\* the sanitizer is about to run on any set of NumGraphNodes output nodes with
\* at most MaxEdges data dependencies among them
InitSan ==
    /\ pc = "remove"
    /\ \E edges \in {e \in SUBSET ((1..NumGraphNodes) \X (1..NumGraphNodes)) :
                        Cardinality(e) <= MaxEdges} :
       \E order \in Orders(1..NumGraphNodes) :
          chakra_nodes = GraphNodes(NumGraphNodes, order, edges)
    /\ heap = NodeObjects(NumGraphNodes, [i \in 1..NumGraphNodes |-> 0],
                          [i \in 1..NumGraphNodes |-> "CPU_OP"], 0, 0, 0)
    /\ input_file = heap
    /\ pytorch_nodes = NodeDict(NumGraphNodes)
    /\ pytorch_root_nids = <<>>
    /\ root_nodes = <<>>
    /\ next_id = NumGraphNodes + 1
    /\ original_to_assigned_ids = <<>>
    /\ returned = <<>>
    /\ requested = <<>>
    /\ updated_pytorch_nodes = EmptyDict
    /\ split_i = 0
    /\ last_split = [called |-> FALSE]
    /\ root_i = 0
    /\ stack = <<>>
    /\ visited = {}
    /\ last_visited_non_gpu = <<>>
    /\ last_visited_any = <<>>
    /\ visit_order = <<>>
    /\ finalized = <<>>
    /\ written = <<>>
    /\ chakra_et = "open"
    /\ error = "none"
    /\ cycle_report = NoReport

NextSan ==
    \/ remove_dangling_nodes
    \/ identify_cyclic_dependencies
    \/ write_chakra_et
    \/ close_chakra_execution_trace

\* the end of convert(), lines 184-190, on any set of output nodes
SpecSan == InitSan /\ [][NextSan]_vars

\* the kinds of records under one thread root, record 1: operators on the
\* CPU, the last of them possibly on the GPU
RootedKinds(n) ==
    {kind \in [1..n -> {"CPU_OP", "GPU_OP", "LABEL"}] :
        /\ kind[1] = "LABEL"
        /\ \A i \in 2..n : kind[i] # "LABEL"
        /\ \A i \in 2..(n - 1) : kind[i] = "CPU_OP"}

\* the objects of the records, record n listed once more, among the children of
\* the root, when it is shared
WithSharedChild(h, n, shared) == IF shared THEN add_child(h, 1, n) ELSE h

\* the dependency converter is about to run on records whose parent fields
\* are any ids, cycles of parents included, and whose last record may be the
\* child of two records; or the sanitizer on any set of output nodes, inserted
\* by ascending id
InitTerm ==
    \/ /\ pc = "roots"
       /\ \E par \in [1..NumRecords -> 0..NumRecords] : \E kind \in RootedKinds(NumRecords) :
          \E shared \in BOOLEAN :
             TranslatedOn(
                 WithSharedChild(
                     _establish_parent_child_relationships(
                         NodeObjects(NumRecords, par, kind, 0, 0, 0), NodeDict(NumRecords)),
                     NumRecords, shared),
                 NodeObjects(NumRecords, par, kind, 0, 0, 0), NumRecords)
    \/ /\ InitSan
       /\ chakra_nodes.keys = [i \in 1..NumGraphNodes |-> i]

NextTerm == NextDep \/ remove_dangling_nodes \/ identify_cyclic_dependencies

\* lines 180-186, every statement of which is run as soon as the one before
\* it returns
SpecTerm == InitTerm /\ [][NextTerm]_vars /\ WF_vars(NextTerm)

\* a node map for the writer: the nodes stored under the keys 1..n, inserted in
\* the given order, the node under key k carrying the id ids[k]
NodeMap(n, order, ids) ==
    [keys |-> order,
     val  |-> [k \in 1..n |->
                 [id        |-> ids[k],
                  name      |-> <<"op">>,
                  type      |-> "COMP_NODE",
                  ctrl_deps |-> <<>>,
                  data_deps |-> <<>>,
                  attr      |-> <<>>]]]

\* write_chakra_et is about to run on any map of NumGraphNodes output nodes,
\* whatever ids the nodes carry
InitWrite ==
    /\ pc = "write"
    /\ \E order \in Orders(1..NumGraphNodes) :
       \E ids \in [1..NumGraphNodes -> 1..NumGraphNodes] :
          chakra_nodes = NodeMap(NumGraphNodes, order, ids)
    /\ heap = NodeObjects(NumGraphNodes, [i \in 1..NumGraphNodes |-> 0],
                          [i \in 1..NumGraphNodes |-> "CPU_OP"], 0, 0, 0)
    /\ input_file = heap
    /\ pytorch_nodes = NodeDict(NumGraphNodes)
    /\ pytorch_root_nids = <<>>
    /\ root_nodes = <<>>
    /\ next_id = NumGraphNodes + 1
    /\ original_to_assigned_ids = <<>>
    /\ returned = <<>>
    /\ requested = <<>>
    /\ updated_pytorch_nodes = EmptyDict
    /\ split_i = 0
    /\ last_split = [called |-> FALSE]
    /\ root_i = 0
    /\ stack = <<>>
    /\ visited = {}
    /\ last_visited_non_gpu = <<>>
    /\ last_visited_any = <<>>
    /\ visit_order = <<>>
    /\ finalized = <<>>
    /\ written = <<>>
    /\ chakra_et = "open"
    /\ error = "none"
    /\ cycle_report = NoReport

NextWrite ==
    \/ write_chakra_et
    \/ \E n \in 0..NumGraphNodes : write_fails(n)
    \/ close_chakra_execution_trace

\* the writer on any node map
SpecWrite == InitWrite /\ [][NextWrite]_vars

\* the strings names are made of: the four markers the classification looks for
Pieces == {"ncclKernel", "ncclDevKernel", "c10d::", "nccl:"}

\* the names of at most n pieces
Names(n) == UNION {[1..k -> Pieces] : k \in 0..n}

\* an input file of two records: a CPU or LABEL record and the GPU record it
\* launches while it runs
LaunchTrace(kind, cpu_name, op_schema, outputs, gpu_name) ==
    <<[id |-> 1, name |-> cpu_name, parent |-> 0, ts |-> 0, dur |-> 2, kind |-> kind,
       op_schema |-> op_schema, outputs |-> outputs, children |-> <<>>, child_gpu |-> None],
      [id |-> 2, name |-> gpu_name, parent |-> 1, ts |-> 1, dur |-> 1, kind |-> "GPU_OP",
       op_schema |-> "", outputs |-> <<>>, children |-> <<>>, child_gpu |-> None]>>

InitTranslate ==
    /\ pc = "load"
    /\ \E kind \in {"CPU_OP", "LABEL"}, op_schema \in {"", "aten::add"},
          outputs \in {<<>>, <<1>>} :
       \E cpu_name, gpu_name \in Names(MaxNameLen) :
          input_file = LaunchTrace(kind, cpu_name, op_schema, outputs, gpu_name)
    /\ Constructed

NextTranslate ==
    \/ load_pytorch_execution_traces
    \/ open_chakra_execution_trace
    \/ split_keep
    \/ split_gpu
    \/ split_done
    \/ translate

\* convert() up to the list of root nodes, on a launch under any names
SpecTranslate == InitTranslate /\ [][NextTranslate]_vars

\* the records of the file, listed in another order
Reordered(records, order) == [i \in DOMAIN records |-> records[order[i]]]

\* a thread root, id 3; a CPU record, id 1, running from 0 for 100 under the
\* root; the GPU record, id 2, it launches at 40 for 50
LaunchUnderRoot ==
    <<[id |-> 1, name |-> <<"op">>, parent |-> 3, ts |-> 0, dur |-> 100, kind |-> "CPU_OP",
       op_schema |-> "aten::add", outputs |-> <<>>, children |-> <<>>, child_gpu |-> None],
      [id |-> 2, name |-> <<"op">>, parent |-> 1, ts |-> 40, dur |-> 50, kind |-> "GPU_OP",
       op_schema |-> "", outputs |-> <<>>, children |-> <<>>, child_gpu |-> None],
      [id |-> 3, name |-> <<"[pytorch|profiler|execution_trace|thread]">>, parent |-> 0,
       ts |-> 0, dur |-> 100, kind |-> "LABEL",
       op_schema |-> "", outputs |-> <<>>, children |-> <<>>, child_gpu |-> None]>>

\* the input files of whole conversions: the launch under a root with its
\* records in any order, and every call tree of NumRecords records that start
\* at 0 and last MaxDur, their GPU records starting anywhere
InitConvert ==
    /\ pc = "load"
    /\ \/ \E order \in Orders(1..3) : input_file = Reordered(LaunchUnderRoot, order)
       \/ \E par \in ParentMaps(NumRecords) : \E kind \in KindMaps(NumRecords, par) :
          \E g \in 0..MaxTs :
             input_file = NodeObjects(NumRecords, par, kind, 0, MaxDur, g)
    /\ Constructed

NextConvert ==
    \/ load_pytorch_execution_traces
    \/ load_fails
    \/ open_chakra_execution_trace
    \/ open_fails
    \/ split_keep
    \/ split_gpu
    \/ split_raises
    \/ split_done
    \/ translate
    \/ dep_begin
    \/ dep_step
    \/ dep_end
    \/ dep_done
    \/ remove_dangling_nodes
    \/ identify_cyclic_dependencies
    \/ write_chakra_et
    \/ \E n \in 0..1 : write_fails(n)
    \/ close_chakra_execution_trace

\* whole runs of convert()
SpecConvert == InitConvert /\ [][NextConvert]_vars

\* the input file holds any call tree of NumRecords records
Init ==
    /\ pc = "load"
    /\ \E par \in ParentMaps(NumRecords) : \E kind \in KindMaps(NumRecords, par) :
       \E t \in 0..MaxTs, g \in 0..MaxTs, d \in 0..MaxDur :
          input_file = NodeObjects(NumRecords, par, kind, t, d, g)
    /\ Constructed

Next ==
    \/ load_pytorch_execution_traces
    \/ load_fails
    \/ open_chakra_execution_trace
    \/ open_fails
    \/ split_keep
    \/ split_gpu
    \/ split_raises
    \/ split_done

\* one run of convert()
Spec == Init /\ [][Next]_vars

(***************************************************************************)
(* Properties                                                              *)
(***************************************************************************)
\* C10: every id assign_unique_id returns is strictly greater than every id
\* an earlier call returned, whatever original ids are passed
C10_IdsStrictlyIncrease ==
    \A i, j \in DOMAIN returned : i < j => returned[i] < returned[j]

\* three calls were made, two of them for the same original id
C10_Witness ==
    /\ Len(returned) >= 3
    /\ \E o \in DOMAIN original_to_assigned_ids : Len(original_to_assigned_ids[o]) >= 2

\* the last call of _split_cpu_node returned
SplitReturned == last_split.called /\ ~last_split.raised

\* C6: a CPU record spanning [t, t+d) with its GPU child starting at g,
\* t < g < t+d, is split into a first segment [t, g) and a second segment
\* [g, t+d), both of positive duration
C6_SplitValidity ==
    (/\ last_split.called
     /\ last_split.cpu_ts < last_split.gpu_ts
     /\ last_split.gpu_ts < last_split.cpu_ts + last_split.cpu_dur)
    => /\ ~last_split.raised
       /\ heap[last_split.first].ts = last_split.cpu_ts
       /\ heap[last_split.first].dur = last_split.gpu_ts - last_split.cpu_ts
       /\ heap[last_split.first].dur > 0
       /\ heap[last_split.second].ts = last_split.gpu_ts
       /\ heap[last_split.second].dur =
             (last_split.cpu_ts + last_split.cpu_dur) - last_split.gpu_ts
       /\ heap[last_split.second].dur > 0
       /\ heap[last_split.first].ts < heap[last_split.second].ts
       /\ heap[last_split.first].dur + heap[last_split.second].dur = last_split.cpu_dur

\* a record starting after time 0 was split at a GPU start inside its span
C6_Witness ==
    /\ SplitReturned
    /\ 0 < last_split.cpu_ts
    /\ last_split.cpu_ts < last_split.gpu_ts
    /\ last_split.gpu_ts < last_split.cpu_ts + last_split.cpu_dur

\* the timestamps of the last split leave a segment without positive duration
SplitTimesBad ==
    \/ last_split.gpu_ts <= last_split.cpu_ts
    \/ last_split.gpu_ts - last_split.cpu_ts <= 0
    \/ (last_split.cpu_ts + last_split.cpu_dur) - last_split.gpu_ts <= 0

\* C7: when the GPU child starts at or before the CPU record, or a segment
\* would have no positive duration, the split raises ValueError, the
\* conversion is over and no segment is stored
C7_BadSplitIsFatal ==
    (last_split.called /\ SplitTimesBad)
    => /\ last_split.raised
       /\ pc = "failed"
       /\ error = "ValueError"
       /\ ~DictHas(updated_pytorch_nodes, heap[last_split.first].id)
       /\ pytorch_nodes = NodeDict(NumRecords)

\* the GPU child starts after the record does but not before it ends: only the
\* second segment is rejected
C7_Witness ==
    /\ last_split.called
    /\ last_split.raised
    /\ last_split.cpu_ts < last_split.gpu_ts
    /\ (last_split.cpu_ts + last_split.cpu_dur) - last_split.gpu_ts <= 0
    /\ pc = "failed"

\* C8: after _split_cpu_node returns, the first segment is the parent of the
\* GPU record and of the second segment, and both are among its children
C8_FirstSegmentIsParent ==
    SplitReturned
    => /\ heap[last_split.gpu].parent = heap[last_split.first].id
       /\ heap[last_split.second].parent = heap[last_split.first].id
       /\ last_split.gpu \in Range(heap[last_split.first].children)
       /\ last_split.second \in Range(heap[last_split.first].children)

\* every child listed by a record of the dict names that record as its parent
ChildrenLinked(d) ==
    \A k \in DictKeys(d) : \A c \in Range(heap[d.val[k]].children) :
        heap[c].parent = heap[d.val[k]].id

\* C9: when _split_cpu_node has just returned and its results are stored, and
\* when split_cpu_nodes_with_gpu_child is over, every child of a processed
\* record names that record as its parent
C9_ChildrenNameTheirParent ==
    /\ (pc = "split" /\ SplitReturned /\ last_split.at = split_i)
          => ChildrenLinked(updated_pytorch_nodes)
    /\ pc = "translate" => ChildrenLinked(pytorch_nodes)

\* the record behind the output node with this id
RecordOf(id) == heap[pytorch_nodes.val[id]]

\* the node is visited as a GPU node
VisitedAsGpu(id) == is_gpu_op(RecordOf(id))

\* position of a visited node in the visit order of the current traversal
Pos(id) == CHOOSE k \in DOMAIN visit_order : visit_order[k] = id

\* the nodes visited before position k that are CPU or LABEL nodes
NonGpuBefore(k) == {j \in 1..(k - 1) : ~VisitedAsGpu(visit_order[j])}

\* the dependency list a node visited at position k must have
DepsOfVisit(k) ==
    IF VisitedAsGpu(visit_order[k])
    THEN IF k = 1 THEN <<>> ELSE <<visit_order[k - 1]>>
    ELSE IF NonGpuBefore(k) = {} THEN <<>> ELSE <<visit_order[Max(NonGpuBefore(k))]>>

\* C3: in a traversal a CPU/LABEL node gets as its data dependency exactly the
\* CPU/LABEL node visited most recently before it (none if there is none) and
\* becomes both cursors; a GPU node gets exactly the node visited most recently
\* before it and becomes the last-any cursor only
C3_CursorRule ==
    /\ \A k \in DOMAIN visit_order :
          chakra_nodes.val[visit_order[k]].data_deps = DepsOfVisit(k)
    /\ visit_order # <<>> =>
          /\ last_visited_any = <<Last(visit_order)>>
          /\ last_visited_non_gpu =
                IF NonGpuBefore(Len(visit_order) + 1) = {} THEN <<>>
                ELSE <<visit_order[Max(NonGpuBefore(Len(visit_order) + 1))]>>

\* a CPU node was visited, then a GPU node, then a CPU node
C3_Witness ==
    \E k \in DOMAIN visit_order :
        /\ k > 1 /\ k < Len(visit_order)
        /\ ~VisitedAsGpu(visit_order[k - 1])
        /\ VisitedAsGpu(visit_order[k])
        /\ ~VisitedAsGpu(visit_order[k + 1])

\* the ids of the children of the record behind an output node
KidIds(id) == Range(ChildrenChakraIds(heap, pytorch_nodes.val[id]))

\* the traversal started at a is over, and a, b, c are a CPU chain, d is a GPU
\* child of b and e a CPU child of c
ChainTraversed(a, b, c, d, e) ==
    /\ Cardinality({a, b, c, d, e}) = 5
    /\ DictKeys(chakra_nodes) = {a, b, c, d, e}
    /\ root_nodes = <<a>> /\ root_i = 1 /\ pc # "dep"
    /\ KidIds(a) = {b} /\ KidIds(b) = {c, d} /\ KidIds(c) = {e}
    /\ KidIds(d) = {} /\ KidIds(e) = {}
    /\ VisitedAsGpu(d)
    /\ \A x \in {a, b, c, e} : ~VisitedAsGpu(x)

DataDeps(id) == chakra_nodes.val[id].data_deps

\* C4 as stated: in the chain a, b, c with the GPU node d below b and the CPU
\* node e below c, b depends on a, c on b, d on b, and e on c and not on d
C4_ChainLaw ==
    \A a \in Range(root_nodes) : \A b \in KidIds(a) : \A c, d \in KidIds(b) : \A e \in KidIds(c) :
        ChainTraversed(a, b, c, d, e)
        => /\ DataDeps(b) = <<a>>
           /\ DataDeps(c) = <<b>>
           /\ b \in Range(DataDeps(d))
           /\ c \in Range(DataDeps(e))
           /\ d \notin Range(DataDeps(e))

\* C4 amended: d depends on b when its id is smaller than that of c
C4_ChainLawByIds ==
    \A a \in Range(root_nodes) : \A b \in KidIds(a) : \A c, d \in KidIds(b) : \A e \in KidIds(c) :
        ChainTraversed(a, b, c, d, e)
        => /\ DataDeps(b) = <<a>>
           /\ DataDeps(c) = <<b>>
           /\ d < c => b \in Range(DataDeps(d))
           /\ c \in Range(DataDeps(e))
           /\ d \notin Range(DataDeps(e))

\* the chain was traversed with the GPU node numbered below its CPU sibling
C4_Witness ==
    \E a \in Range(root_nodes) : \E b \in KidIds(a) : \E c, d \in KidIds(b) : \E e \in KidIds(c) :
        ChainTraversed(a, b, c, d, e) /\ d < c /\ DataDeps(d) = <<b>>

\* the children of an output node that are output nodes
ChakraKids(id) == {k \in KidIds(id) : DictHas(chakra_nodes, k)}

RECURSIVE SubtreeFrom(_, _)
SubtreeFrom(frontier, seen) ==
    IF frontier = {} THEN seen
    ELSE SubtreeFrom((UNION {ChakraKids(x) : x \in frontier}) \ seen,
                     seen \cup (UNION {ChakraKids(x) : x \in frontier}))

\* an output node and the output nodes below it
Subtree(id) == SubtreeFrom({id}, {id})

Visited(id) == id \in Range(visit_order)

\* x and all that is below it was visited before y
WholeSubtreeBefore(x, y) ==
    \A z \in Subtree(x) : Visited(z) /\ Pos(z) < Pos(y)

\* two children of p, output nodes both, visited after p
SiblingsVisited(p, c1, c2) ==
    /\ Visited(p) /\ Visited(c1) /\ Visited(c2)
    /\ c1 \in ChakraKids(p) /\ c2 \in ChakraKids(p)
    /\ Pos(p) < Pos(c1) /\ Pos(p) < Pos(c2)

\* C5 as stated: of two children of a node the one with the greater id, and
\* its whole subtree, is visited first
C5_DescendingOrder ==
    \A p, c1, c2 \in DictKeys(chakra_nodes) :
        (SiblingsVisited(p, c1, c2) /\ c1 > c2) => WholeSubtreeBefore(c1, c2)

\* C5 amended: of two children of a node the one with the smaller id, and its
\* whole subtree, is visited first
C5_AscendingOrder ==
    \A p, c1, c2 \in DictKeys(chakra_nodes) :
        (SiblingsVisited(p, c1, c2) /\ c1 < c2) => WholeSubtreeBefore(c1, c2)

\* two siblings were visited, the one with the smaller id has a child
C5_Witness ==
    \E p, c1, c2 \in DictKeys(chakra_nodes) :
        /\ SiblingsVisited(p, c1, c2) /\ c1 < c2
        /\ Subtree(c1) # {c1}

\* the nodes a node depends on
DepsOf(cn, k) == Range(cn.val[k].data_deps) \cap DictKeys(cn)

RECURSIVE ClosureFrom(_, _, _)
ClosureFrom(cn, frontier, seen) ==
    IF frontier = {} THEN seen
    ELSE ClosureFrom(cn, (UNION {DepsOf(cn, x) : x \in frontier}) \ seen,
                     seen \cup (UNION {DepsOf(cn, x) : x \in frontier}))

\* the nodes reached from k along one or more data dependencies
DepClosure(cn, k) == ClosureFrom(cn, DepsOf(cn, k), DepsOf(cn, k))

\* the data_deps relation has a cycle
Cyclic(cn) == \E k \in DictKeys(cn) : k \in DepClosure(cn, k)

\* C1: the writer is reached only with an acyclic data_deps relation over the
\* surviving nodes: cycle detection raises when the relation has a cycle, and
\* only then, and after it raised nothing is written
C1_OnlyAcyclicIsWritten ==
    /\ pc \in {"write", "close", "done"} => ~Cyclic(chakra_nodes)
    /\ pc = "failed" => /\ error = "Exception"
                        /\ Cyclic(chakra_nodes)
                        /\ written = <<>>
    /\ written # <<>> => ~Cyclic(chakra_nodes)

\* cycle detection raised on a cycle through three nodes
C1_Witness ==
    /\ pc = "failed"
    /\ error = "Exception"
    /\ \E a, b, c \in DictKeys(chakra_nodes) :
          /\ Cardinality({a, b, c}) = 3
          /\ chakra_nodes.val[a].data_deps = <<b>>
          /\ chakra_nodes.val[b].data_deps = <<c>>
          /\ chakra_nodes.val[c].data_deps = <<a>>

\* remove_dangling_nodes has run
PruningDone == pc \in {"identify", "write", "close", "done", "failed"}

\* C2: after one run of remove_dangling_nodes every surviving node has a data
\* dependency or is a data dependency of another surviving node, and a second
\* run would remove nothing
C2_NoDanglingSurvivor ==
    PruningDone
    => /\ \A k \in DictKeys(chakra_nodes) :
             \/ chakra_nodes.val[k].data_deps # <<>>
             \/ \E j \in DictKeys(chakra_nodes) \ {k} :
                   k \in Range(chakra_nodes.val[j].data_deps)
       /\ Pruned(chakra_nodes, pytorch_nodes).cn = chakra_nodes

\* pruning removed a node and kept one that has no dependency itself
C2_Witness ==
    /\ PruningDone
    /\ Len(chakra_nodes.keys) < NumGraphNodes
    /\ \E k \in DictKeys(chakra_nodes) : chakra_nodes.val[k].data_deps = <<>>

\* the ids returned by the calls made with original id x, in call order
ReturnedFor(x) ==
    [i \in 1..Cardinality({j \in DOMAIN requested : requested[j] = x}) |->
        returned[SortedSeq({j \in DOMAIN requested : requested[j] = x})[i]]]

IsPrefix(s, t) == Len(s) <= Len(t) /\ \A i \in DOMAIN s : s[i] = t[i]

\* get_assigned_ids after the step
get_assigned_ids_next(original_id) ==
    IF original_id \in DOMAIN original_to_assigned_ids'
    THEN original_to_assigned_ids'[original_id] ELSE <<>>

\* C11: get_assigned_ids(x) is the list of the ids returned by the calls of
\* assign_unique_id made with x, in call order, the empty list for an x never
\* passed, and no step shortens or rewrites it
C11_HistoryIsExact ==
    /\ [](\A x \in 0..(MaxOrigId + 1) : get_assigned_ids(x) = ReturnedFor(x))
    /\ [][\A x \in 0..(MaxOrigId + 1) :
            IsPrefix(get_assigned_ids(x), get_assigned_ids_next(x))]_vars

\* an original id was passed twice, another once, and one never
C11_Witness ==
    /\ \E x \in 0..MaxOrigId : Len(get_assigned_ids(x)) >= 2
    /\ \E x \in 0..MaxOrigId : Len(get_assigned_ids(x)) = 1
    /\ \E x \in 0..(MaxOrigId + 1) : x \notin Range(requested) /\ get_assigned_ids(x) = <<>>

\* the output nodes exist
TranslateDone == pc = "roots"

IsGpuRecord(r) == r.kind = "GPU_OP"

HasKernelMarker(r) == "ncclKernel" \in Range(r.name) \/ "ncclDevKernel" \in Range(r.name)

HasLibraryMarker(r) == "c10d::" \in Range(r.name) \/ "nccl:" \in Range(r.name)

\* the type the stated order of classification gives a record
StatedType(r) ==
    CASE IsGpuRecord(r) /\ HasKernelMarker(r) -> "COMM_COLL_NODE"
      [] IsGpuRecord(r) /\ ~HasKernelMarker(r) -> "COMP_NODE"
      [] ~IsGpuRecord(r) /\ HasLibraryMarker(r) -> "COMM_COLL_NODE"
      [] ~IsGpuRecord(r) /\ ~HasLibraryMarker(r) /\ (r.op_schema # "" \/ r.outputs # <<>>)
            -> "COMP_NODE"
      [] OTHER -> "INVALID_NODE"

\* C12: the type of every output node is the first match of: GPU record with
\* a collective-kernel marker in its name: collective; other GPU record:
\* compute; CPU or LABEL record with a collective-library marker: collective;
\* with an op schema or outputs: compute; else invalid
C12_ClassificationOrder ==
    TranslateDone
    => \A k \in DictKeys(chakra_nodes) : chakra_nodes.val[k].type = StatedType(RecordOf(k))

\* a GPU record with only a library marker was classified compute, a CPU
\* record with only a kernel marker and nothing else invalid
C12_Witness ==
    /\ TranslateDone
    /\ \E k, j \in DictKeys(chakra_nodes) :
          /\ IsGpuRecord(RecordOf(k))
          /\ HasLibraryMarker(RecordOf(k)) /\ ~HasKernelMarker(RecordOf(k))
          /\ chakra_nodes.val[k].type = "COMP_NODE"
          /\ ~IsGpuRecord(RecordOf(j))
          /\ HasKernelMarker(RecordOf(j)) /\ ~HasLibraryMarker(RecordOf(j))
          /\ chakra_nodes.val[j].type = "INVALID_NODE"

AttrNames(node) == {node.attr[i].name : i \in DOMAIN node.attr}

\* the node has the three attributes of a collective, involved_dim with
\* num_dims entries, all true
HasCollectiveAttrs(node) ==
    /\ {"comm_type", "comm_size", "involved_dim"} \subseteq AttrNames(node)
    /\ \A i \in DOMAIN node.attr :
          node.attr[i].name = "involved_dim" => node.attr[i].val = [d \in 1..NumDims |-> TRUE]

HasNoCollectiveAttrs(node) ==
    {"comm_type", "comm_size", "involved_dim"} \cap AttrNames(node) = {}

\* C13: an output node built from a GPU record carries comm_type, comm_size
\* and involved_dim exactly when that GPU record is classified as a collective
C13_CollectiveAttrsOfGpu ==
    TranslateDone
    => \A k \in DictKeys(chakra_nodes) :
          IsGpuRecord(RecordOf(k))
          => IF StatedType(RecordOf(k)) = "COMM_COLL_NODE"
             THEN HasCollectiveAttrs(chakra_nodes.val[k])
             ELSE HasNoCollectiveAttrs(chakra_nodes.val[k])

\* write_chakra_et has returned
WriteDone == pc \in {"close", "done"}

IsNodeMessage(msg) == "id" \in DOMAIN msg

\* C14: write_chakra_et hands the encoder one metadata record, first, and
\* then every surviving output node once, by strictly ascending id, whatever
\* the insertion order of self.chakra_nodes
C14_WrittenAscending ==
    WriteDone
    => /\ Len(written) = Cardinality(DictKeys(chakra_nodes)) + 1
       /\ written[1] = GlobalMetadata
       /\ \A i \in 2..Len(written) :
             /\ IsNodeMessage(written[i])
             /\ written[i].id \in DictKeys(chakra_nodes)
             /\ written[i] = chakra_nodes.val[written[i].id]
       /\ \A i, j \in 2..Len(written) : i < j => written[i].id < written[j].id

\* three nodes that were not inserted by ascending id were written
C14_Witness ==
    /\ pc = "done"
    /\ Len(written) = 4
    /\ chakra_nodes.keys[1] > chakra_nodes.keys[2]
    /\ chakra_nodes.keys[2] < chakra_nodes.keys[3]

\* two output nodes share an id
SharedId(cn) ==
    \E k, j \in DictKeys(cn) : k # j /\ cn.val[k].id = cn.val[j].id

\* the writer is over and the encoder did not fail
WriterOver == pc \in {"close", "done", "failed"} /\ error # "IOError"

\* C15: when two output nodes share an id the writer fails with the
\* duplicate-id ValueError and has handed nothing to the encoder, neither a
\* node nor the metadata
C15_DuplicateIdIsFatal ==
    (WriterOver /\ SharedId(chakra_nodes))
    => /\ pc = "failed"
       /\ error = "ValueError"
       /\ written = <<>>

\* C16: when convert() ends with an error nothing was handed to the encoder
\* and the output file is not left open
C16_NothingPersistedOnFailure ==
    pc = "failed" => written = <<>> /\ chakra_et # "open"

\* the conversion was given the launch under a root, its records in some order
LaunchScenario == \E order \in Orders(1..3) : input_file = Reordered(LaunchUnderRoot, order)

\* the output node carries the attribute with the value
HasAttr(node, name, val) ==
    \E i \in DOMAIN node.attr : node.attr[i].name = name /\ node.attr[i].val = val

IsCpuNodeAt(node, ts) ==
    /\ node.name = <<"op">>
    /\ HasAttr(node, "is_cpu_op", TRUE)
    /\ HasAttr(node, "ts", ts)

IsGpuNode(node) == HasAttr(node, "is_cpu_op", FALSE)

\* the output holds a first segment starting at 0, a second segment starting
\* at 40 and a GPU node, the last two depending on the first segment
SegmentsAndGpu(cn) ==
    \E f, s, g \in DictKeys(cn) :
       /\ IsCpuNodeAt(cn.val[f], 0)
       /\ IsCpuNodeAt(cn.val[s], 40)
       /\ IsGpuNode(cn.val[g])
       /\ cn.val[f].id \in Range(cn.val[g].data_deps)
       /\ cn.val[f].id \in Range(cn.val[s].data_deps)

\* once the output file is open, no step but the encoder has failed: neither
\* the split nor the cycle detection raised
NoConversionError == chakra_et # "none" => error \in {"none", "IOError"}

\* C17 as stated: the conversion of the launch under a root writes exactly
\* three output nodes, the two segments and the GPU node, the GPU node and
\* the second segment depending on the first segment, and raises no cycle
C17_ThreeOutputNodes ==
    LaunchScenario
    => /\ NoConversionError
       /\ pc = "done" => /\ Cardinality(DictKeys(chakra_nodes)) = 3
                         /\ Len(written) = 4
                         /\ SegmentsAndGpu(chakra_nodes)

\* C17: the conversion of the launch under a root writes exactly four output
\* nodes, the root, the two segments and the GPU node, the GPU node and the
\* second segment depending on the first segment, and raises no cycle
C17_FourOutputNodes ==
    LaunchScenario
    => /\ NoConversionError
       /\ pc = "done" => /\ Cardinality(DictKeys(chakra_nodes)) = 4
                         /\ Len(written) = 5
                         /\ \E r \in DictKeys(chakra_nodes) : is_root_node(chakra_nodes.val[r])
                         /\ SegmentsAndGpu(chakra_nodes)

\* the launch under a root, its root last in the file, was converted
C17_Witness ==
    /\ input_file = LaunchUnderRoot
    /\ pc = "done"
    /\ error = "none"
    /\ chakra_et = "closed"

NoRepeat(seq) == \A i, j \in DOMAIN seq : i # j => seq[i] # seq[j]

\* C18: over the traversals from all root nodes, a cursor rule is applied to
\* every output node at most once, and no data_deps list names an id twice
C18_FinalizedOnce ==
    /\ NoRepeat(finalized)
    /\ \A k \in DictKeys(chakra_nodes) : NoRepeat(chakra_nodes.val[k].data_deps)

\* a step of the split loop in which _split_cpu_node returned
SplitStep ==
    /\ pc = "split"
    /\ split_i < Len(pytorch_nodes.keys)
    /\ heap[CpuNode].child_gpu # None
    /\ pc' = "split"
    /\ split_i' = split_i + 1

\* the records the loop has not reached, but for the one it is looking at
Unprocessed ==
    {DictValues(pytorch_nodes)[i] : i \in (split_i + 2)..Len(pytorch_nodes.keys)}

\* the records of the processed set
Processed == {updated_pytorch_nodes.val[k] : k \in DictKeys(updated_pytorch_nodes)}

\* the parent of the record about to be split, in the collections that hold it
ParentHolders == {a \in Unprocessed \cup Processed : heap[a].id = heap[CpuNode].parent}

\* after the step the record a lists no child with the id of the split record
OriginalDropped(a) ==
    \A c \in Range(heap'[a].children) : c # CpuNode /\ heap'[c].id # heap[CpuNode].id

\* after the step the record a lists the first segment once
FirstListedOnce(a) ==
    Cardinality({i \in DOMAIN heap'[a].children :
                    heap'[heap'[a].children[i]].id = heap'[last_split'.first].id}) = 1

\* the other children of the record a are the same, in the same order
OthersKept(a) ==
    SelectSeq(heap[a].children, LAMBDA c : heap[c].id # heap[CpuNode].id)
    = SelectSeq(heap'[a].children, LAMBDA c : heap'[c].id # heap'[last_split'.first].id)

\* the first segment of the last split, as stored in the processed set
StoredFirst == pytorch_nodes.val[heap[last_split.first].id]

\* the stored first segment names as parent every processed record that
\* lists it as a child
FirstNamesFinalParent ==
    \A k \in DictKeys(pytorch_nodes) :
       (\E c \in Range(heap[pytorch_nodes.val[k]].children) :
           heap[c].id = heap[last_split.first].id)
       => heap[StoredFirst].parent = heap[pytorch_nodes.val[k]].id

\* C19: a split drops the original record from the child list of its parent,
\* in the collection that holds the parent, lists the first segment there
\* once and keeps the other children; and when the split stage is over the
\* stored first segment names the final id of that parent as its parent
C19_ParentChildListUpdated ==
    /\ [][SplitStep => \A a \in ParentHolders :
                          OriginalDropped(a) /\ FirstListedOnce(a) /\ OthersKept(a)]_vars
    /\ []((pc = "translate" /\ SplitReturned) => FirstNamesFinalParent)

\* the ids of the records of the input trace
InputIds == {input_file[i].id : i \in DOMAIN input_file}

\* C20: load leaves the id counter at one past the largest id of the input
\* trace, no id assign_unique_id returns is the id of an input record, and
\* no two records of the processed set carry the same id
C20_AssignedIdsAreFresh ==
    /\ pc = "open" => next_id = Max(InputIds) + 1
    /\ \A i \in DOMAIN returned : returned[i] \notin InputIds
    /\ \A k, j \in DictKeys(updated_pytorch_nodes) :
          k # j => heap[updated_pytorch_nodes.val[k]].id # heap[updated_pytorch_nodes.val[j]].id

\* the node under key k has a data dependency or is one of some node
NotDangling(cn, k) ==
    \/ cn.val[k].data_deps # <<>>
    \/ \E j \in DictKeys(cn) : k \in Range(cn.val[j].data_deps)

\* a step of pruning, cycle detection, writing or closing
SanitizerStep == pc \in {"remove", "identify", "write", "close"}

\* C21: pruning keeps every node that has a data dependency or is one, and
\* pruning, cycle detection and writing add no node and leave the data_deps
\* of every node they keep as it was
C21_PruningOnlyDropsDangling ==
    [][SanitizerStep
       => /\ \A k \in DictKeys(chakra_nodes) :
                NotDangling(chakra_nodes, k) => k \in DictKeys(chakra_nodes')
          /\ \A k \in DictKeys(chakra_nodes') :
                /\ k \in DictKeys(chakra_nodes)
                /\ chakra_nodes'.val[k].data_deps = chakra_nodes.val[k].data_deps
          /\ pc # "remove" => chakra_nodes' = chakra_nodes]_vars

\* pruning dropped a node, and the two it kept were written: one that has no
\* data dependency and the one that depends on it
C21_Witness ==
    /\ pc = "done"
    /\ Len(chakra_nodes.keys) < NumGraphNodes
    /\ Len(written) = 3
    /\ written[2].data_deps = <<>>
    /\ written[3].data_deps = <<written[2].id>>

\* the key of the output node with this name
KeyOfName(cn, name) == CHOOSE k \in DictKeys(cn) : cn.val[k].name = name

\* the names are those of the nodes of one cycle of the data_deps relation, in
\* the order the dependencies are followed, the first node named again at the
\* end and no other node named twice
IsCyclePath(cn, names) ==
    /\ Len(names) >= 2
    /\ names[1] = names[Len(names)]
    /\ \A i \in DOMAIN names : \E k \in DictKeys(cn) : cn.val[k].name = names[i]
    /\ \A i, j \in 1..(Len(names) - 1) : i # j => names[i] # names[j]
    /\ \A i \in 1..(Len(names) - 1) :
          KeyOfName(cn, names[i + 1]) \in
              Range(cn.val[KeyOfName(cn, names[i])].data_deps)

\* cycle detection raised
CycleRaised == pc = "failed" /\ error = "Exception"

\* C22: when cycle detection raises, the message of the exception names the
\* nodes of the cycle it found, and only them, in traversal order and ending
\* with the node that was met again
C22_ErrorNamesTheCycle ==
    CycleRaised => IsCyclePath(chakra_nodes, cycle_report.raised)

\* C23: every call of convert_ctrl_dep_to_data_dep returns, also when the
\* children of the records form a cycle or a record is the child of two
\* records, and identify_cyclic_dependencies returns or raises on every set
\* of output nodes
C23_TraversalsTerminate ==
    /\ (pc = "dep") ~> (pc = "roots")
    /\ (pc = "identify") ~> (pc \in {"write", "failed"})

\* a traversal returned after it visited two records that are children of
\* each other
C23_Witness ==
    /\ pc = "roots"
    /\ root_i = 1
    /\ \E a, b \in visited :
          /\ a # b
          /\ b \in Range(heap[a].children)
          /\ a \in Range(heap[b].children)

\* split_cpu_nodes_with_gpu_child has returned
SplitOver == pc = "translate"

\* the entries of the processed record map that are GPU records
GpuEntries == {k \in DictKeys(pytorch_nodes) : is_gpu_op(heap[pytorch_nodes.val[k]])}

\* the GPU records of the input trace
GpuInputs == {i \in DOMAIN input_file : is_gpu_op(input_file[i])}

\* C24: when the split stage is over every entry of the processed record map
\* is stored under the id it carries, and the map holds one entry for each GPU
\* record of the input, wherever the GPU record stood in the file
C24_StoredUnderOwnId ==
    SplitOver
    => /\ \A k \in DictKeys(pytorch_nodes) : heap[pytorch_nodes.val[k]].id = k
       /\ Cardinality(GpuEntries) = Cardinality(GpuInputs)

\* convert_ctrl_dep_to_data_dep was run from every root node and the sanitizer
\* has not run yet
DependenciesConverted == pc = "remove"

\* C25: when the dependency converter has been run from every root node, the
\* data_deps relation of the output nodes has no cycle, whatever the parent and
\* child structure of the records and however many root nodes there are
C25_ConverterCreatesNoCycle ==
    DependenciesConverted => ~Cyclic(chakra_nodes)

\* every id in the data_deps of an output node is the key of an output node
DepsSurvive(cn) ==
    \A k \in DictKeys(cn) : Range(cn.val[k].data_deps) \subseteq DictKeys(cn)

\* the ids of the node messages in the output file
WrittenIds == {written[i].id : i \in 2..Len(written)}

\* remove_dangling_nodes has returned
Sanitized == pc \in {"identify", "write", "close", "done"}

\* C26: once remove_dangling_nodes has returned, every id in the data_deps of
\* a surviving node is the id of a surviving node, the cycle search that
\* follows meets no missing key, and every id in the data_deps of a written
\* node is the id of a written node once all nodes are written
C26_SurvivorsNameSurvivors ==
    /\ Sanitized => DepsSurvive(chakra_nodes)
    /\ pc = "identify" => ~CycleSearch(chakra_nodes).keyerror
    /\ pc \in {"close", "done"}
          => \A i \in 2..Len(written) : Range(written[i].data_deps) \subseteq WrittenIds

\* a run that pruned a node and wrote a node with a data dependency
C26_Witness ==
    /\ pc = "done"
    /\ Len(pytorch_nodes.keys) < Len(updated_pytorch_nodes.keys)
    /\ \E i \in 2..Len(written) : written[i].data_deps # <<>>

\* the record the written node was made from names p as its parent, and the
\* record stored under p lists that record among its children
StructuralParent(node, p) ==
    /\ DictHas(pytorch_nodes, node.id)
    /\ heap[pytorch_nodes.val[node.id]].parent = p
    /\ DictHas(pytorch_nodes, p)
    /\ \E c \in Range(heap[pytorch_nodes.val[p]].children) : heap[c].id = node.id

====
